---- MODULE Spec2Model ----
(***************************************************************************)
(* Model of the image-generation MCP server: the tool dispatcher of        *)
(* src/src/mcp-server.ts and the generation adapter of                     *)
(* src/src/openai-provider.ts (lines 1-206, the version the server uses).  *)
(*                                                                         *)
(* A path is a sequence of one-character strings, so that dirname,         *)
(* extname, basename and join are computed character by character as       *)
(* Node's posix path module computes them.  An optional JavaScript value   *)
(* (a key that may be missing, a value that may be undefined) is None or   *)
(* Some(v).                                                                *)
(***************************************************************************)
EXTENDS Integers, Sequences, FiniteSets, TLC

None == [some |-> FALSE]
Some(v) == [some |-> TRUE, v |-> v]

(***************************************************************************)
(* Node's path module (posix), as used by saveImages.                      *)
(***************************************************************************)
SLASH == "/"
DOT == "."

RECURSIVE StripTrailingSlashes(_)
StripTrailingSlashes(p) ==
  IF Len(p) > 0 /\ p[Len(p)] = SLASH
  THEN StripTrailingSlashes(SubSeq(p, 1, Len(p) - 1))
  ELSE p

\* index of the last occurrence of c in p, 0 when there is none
RECURSIVE LastIndexOf(_, _)
LastIndexOf(p, c) ==
  IF Len(p) = 0 THEN 0
  ELSE IF p[Len(p)] = c THEN Len(p)
  ELSE LastIndexOf(SubSeq(p, 1, Len(p) - 1), c)

\* the last path segment, trailing slashes ignored
LastPart(p) ==
  LET q == StripTrailingSlashes(p)
      s == LastIndexOf(q, SLASH)
  IN SubSeq(q, s + 1, Len(q))

\* path.dirname
dirname(p) ==
  IF Len(p) = 0 THEN <<DOT>>
  ELSE
    LET hasRoot == p[1] = SLASH
        q == StripTrailingSlashes(p)
        end == LastIndexOf(q, SLASH)
    IN IF Len(q) = 0 THEN <<SLASH>>
       ELSE IF end = 0 THEN <<DOT>>
       ELSE IF end = 1 THEN <<SLASH>>
       ELSE IF hasRoot /\ end = 2 THEN <<SLASH, SLASH>>
       ELSE SubSeq(q, 1, end - 1)

\* path.extname: from the last dot of the last segment, unless that dot is
\* the segment's first character or the segment is ".."
extname(p) ==
  LET b == LastPart(p)
      d == LastIndexOf(b, DOT)
  IN IF d = 0 \/ d = 1 \/ b = <<DOT, DOT>> THEN <<>>
     ELSE SubSeq(b, d, Len(b))

\* path.basename(p, ext)
basename(p, ext) ==
  LET b == LastPart(p)
      k == Len(b) - Len(ext)
  IN IF Len(ext) > 0 /\ k > 0 /\ SubSeq(b, k + 1, Len(b)) = ext
     THEN SubSeq(b, 1, k)
     ELSE b

\* the segments of p between slashes, empty segments included
RECURSIVE Segments(_)
Segments(p) ==
  LET s == LastIndexOf(p, SLASH)
  IN IF s = 0 THEN <<p>>
     ELSE Append(Segments(SubSeq(p, 1, s - 1)), SubSeq(p, s + 1, Len(p)))

\* normalizeString: resolve ".", ".." and empty segments, left to right
RECURSIVE Resolve(_, _, _)
Resolve(segs, acc, allowAboveRoot) ==
  IF Len(segs) = 0 THEN acc
  ELSE
    LET s == Head(segs)
        rest == Tail(segs)
    IN IF s = <<>> \/ s = <<DOT>> THEN Resolve(rest, acc, allowAboveRoot)
       ELSE IF s = <<DOT, DOT>>
       THEN IF Len(acc) > 0 /\ acc[Len(acc)] # <<DOT, DOT>>
            THEN Resolve(rest, SubSeq(acc, 1, Len(acc) - 1), allowAboveRoot)
            ELSE IF allowAboveRoot
            THEN Resolve(rest, Append(acc, s), allowAboveRoot)
            ELSE Resolve(rest, acc, allowAboveRoot)
       ELSE Resolve(rest, Append(acc, s), allowAboveRoot)

RECURSIVE JoinSegments(_)
JoinSegments(segs) ==
  IF Len(segs) = 0 THEN <<>>
  ELSE IF Len(segs) = 1 THEN segs[1]
  ELSE segs[1] \o <<SLASH>> \o JoinSegments(Tail(segs))

\* path.normalize
normalize(p) ==
  IF Len(p) = 0 THEN <<DOT>>
  ELSE
    LET isAbsolute == p[1] = SLASH
        trailingSeparator == p[Len(p)] = SLASH
        body == JoinSegments(Resolve(Segments(p), <<>>, ~isAbsolute))
    IN IF Len(body) = 0
       THEN IF isAbsolute THEN <<SLASH>>
            ELSE IF trailingSeparator THEN <<DOT, SLASH>> ELSE <<DOT>>
       ELSE (IF isAbsolute THEN <<SLASH>> ELSE <<>>)
            \o body
            \o (IF trailingSeparator THEN <<SLASH>> ELSE <<>>)

\* path.join(a, b)
join(a, b) ==
  IF Len(a) = 0 THEN normalize(b)
  ELSE IF Len(b) = 0 THEN normalize(a)
  ELSE normalize(a \o <<SLASH>> \o b)

(***************************************************************************)
(* Bounds and the inputs a client can send.                                *)
(***************************************************************************)
\* the longest image list an upstream response carries
MaxEntries == 2

CatalogNames ==
  {"generate_image_gpt", "generate_image_gpt_mini",
   "generate_image_dalle3", "generate_image_dalle2"}

\* the names a client may ask for: the catalog and one that is not in it
ToolNames == CatalogNames \cup {"generate_image"}

\* destination paths: /t/x/i.p, i.p, ./x/i.p and /t/i
AbsNested == <<"/", "t", "/", "x", "/", "i", ".", "p">>
Bare == <<"i", ".", "p">>
DotRelative == <<".", "/", "x", "/", "i", ".", "p">>
NoExtension == <<"/", "t", "/", "i">>
OutputPaths == {AbsNested, Bare, DotRelative, NoExtension}

Prompts == {None, Some(""), Some("a cat")}
Outputs == {None, Some(<<>>)} \cup {Some(p) : p \in OutputPaths}

\* the optional keys of an argument bag, as three profiles: none given, values
\* of the gpt-image schema, and values no schema of the catalog allows
NoOptions ==
  [n |-> None, size |-> None, quality |-> None, style |-> None,
   background |-> None, moderation |-> None, output_compression |-> None,
   output_format |-> None, user |-> None, response_format |-> None]
GptStyleOptions ==
  [n |-> Some(5), size |-> Some("1024x1024"), quality |-> Some("low"),
   style |-> Some("vivid"), background |-> Some("transparent"),
   moderation |-> Some("low"), output_compression |-> Some(50),
   output_format |-> Some("jpeg"), user |-> Some("u1"),
   response_format |-> None]
OddOptions ==
  [n |-> Some(50), size |-> Some("256x256"), quality |-> Some("hd"),
   style |-> Some("natural"), background |-> Some("opaque"),
   moderation |-> Some("auto"), output_compression |-> Some(101),
   output_format |-> Some("webp"), user |-> None,
   response_format |-> Some("url")]
OptionProfiles == {NoOptions, GptStyleOptions, OddOptions}

WithRequired(opts, prompt, output) ==
  [prompt |-> prompt, output |-> output, n |-> opts.n, size |-> opts.size,
   quality |-> opts.quality, style |-> opts.style,
   background |-> opts.background, moderation |-> opts.moderation,
   output_compression |-> opts.output_compression,
   output_format |-> opts.output_format, user |-> opts.user,
   response_format |-> opts.response_format]

ArgumentBags ==
  {WithRequired(o, p, out) : o \in OptionProfiles, p \in Prompts, out \in Outputs}

\* request.params.arguments: an argument bag, or no arguments object at all
ArgumentChoices == {None} \cup {Some(b) : b \in ArgumentBags}

\* JavaScript truthiness of an optional string and of an optional path
TruthyString(x) == x.some /\ x.v # ""
TruthyPath(x) == x.some /\ Len(x.v) > 0

(***************************************************************************)
(* What the upstream and the environment can answer.                       *)
(***************************************************************************)
\* an image entry: which of b64_json and url it carries
EntryKinds == [b64_json : BOOLEAN, url : BOOLEAN]

RECURSIVE SeqsUpTo(_, _)
SeqsUpTo(S, k) ==
  IF k = 0 THEN {<<>>}
  ELSE LET shorter == SeqsUpTo(S, k - 1)
       IN shorter \cup {Append(s, e) : s \in {t \in shorter : Len(t) = k - 1}, e \in S}

\* an upstream response: its data field is missing or a list of entries
UpstreamResponses ==
  {[data |-> None]} \cup {[data |-> Some(d)] : d \in SeqsUpTo(EntryKinds, MaxEntries)}

\* a thrown value: where it came from, its message, and its response property
\* (none, a plain object, or an object with a reference cycle)
Error(origin, message, response) ==
  [origin |-> origin, message |-> message, response |-> response]
RemoteErrors ==
  {Error("remote", "quota exceeded", "none"),
   Error("remote", "", "none"),
   Error("remote", "bad request", "plain")}
FetchErrors ==
  {Error("fetch", "socket hang up", "none"),
   Error("fetch", "status 404", "cyclic")}
MkdirError == Error("mkdir", "EACCES", "none")
WriteError == Error("write", "ENOSPC", "none")
DataLengthTypeError == Error("TypeError", "Cannot read properties of undefined", "none")
StringifyTypeError == Error("TypeError", "Converting circular structure to JSON", "none")
ArgsTypeError == Error("TypeError", "Cannot read properties of undefined", "none")

(***************************************************************************)
(* The dispatcher: the four handlers of mcp-server.ts.                     *)
(***************************************************************************)
McpError(code, message) ==
  [origin |-> "McpError", code |-> code, message |-> message, response |-> "none"]

\* the parameter record each handler builds from the argument bag
GptImageOptions(args) ==
  [model |-> "gpt-image-1", n |-> args.n, size |-> args.size,
   quality |-> args.quality, background |-> args.background,
   moderation |-> args.moderation,
   output_compression |-> args.output_compression,
   output_format |-> args.output_format, user |-> args.user]

GptImageMiniOptions(args) ==
  [model |-> "gpt-image-1-mini", n |-> args.n, size |-> args.size,
   quality |-> args.quality, background |-> args.background,
   moderation |-> args.moderation,
   output_compression |-> args.output_compression,
   output_format |-> args.output_format, user |-> args.user]

Dalle3Options(args) ==
  [model |-> "dall-e-3", n |-> Some(1), size |-> args.size,
   quality |-> args.quality, style |-> args.style, user |-> args.user]

Dalle2Options(args) ==
  [model |-> "dall-e-2", n |-> args.n, size |-> args.size, user |-> args.user]

\* routing whose last branch takes every other name
RouteOfFallthrough(toolName) ==
  IF toolName = "generate_image_gpt" THEN "handleGptImageGeneration"
  ELSE IF toolName = "generate_image_gpt_mini" THEN "handleGptImageMiniGeneration"
  ELSE IF toolName = "generate_image_dalle3" THEN "handleDalle3Generation"
  ELSE "handleDalle2Generation"

\* the handler a tool name is routed to, "none" for a name outside the catalog
RouteOf(toolName) ==
  IF toolName = "generate_image_gpt" THEN "handleGptImageGeneration"
  ELSE IF toolName = "generate_image_gpt_mini" THEN "handleGptImageMiniGeneration"
  ELSE IF toolName = "generate_image_dalle3" THEN "handleDalle3Generation"
  ELSE IF toolName = "generate_image_dalle2" THEN "handleDalle2Generation"
  ELSE "none"

\* the dall-e-3 handler with the parameter record of the dall-e-2 handler
HandlerOptionsCopied(handler, args) ==
  CASE handler = "handleGptImageGeneration" -> GptImageOptions(args)
    [] handler = "handleGptImageMiniGeneration" -> GptImageMiniOptions(args)
    [] handler = "handleDalle3Generation" -> Dalle2Options(args)
    [] handler = "handleDalle2Generation" -> Dalle2Options(args)


HandlerOptions(handler, args) ==
  CASE handler = "handleGptImageGeneration" -> GptImageOptions(args)
    [] handler = "handleGptImageMiniGeneration" -> GptImageMiniOptions(args)
    [] handler = "handleDalle3Generation" -> Dalle3Options(args)
    [] handler = "handleDalle2Generation" -> Dalle2Options(args)

\* the mini handler with the tag of the gpt-image-1 handler
HandlerModelTagCopied(handler) ==
  CASE handler = "handleGptImageGeneration" -> "gpt-image-1"
    [] handler = "handleGptImageMiniGeneration" -> "gpt-image-1"
    [] handler = "handleDalle3Generation" -> "dall-e-3"
    [] handler = "handleDalle2Generation" -> "dall-e-2"

\* the model tag each handler writes into its success payload
HandlerModelTag(handler) ==
  CASE handler = "handleGptImageGeneration" -> "gpt-image-1"
    [] handler = "handleGptImageMiniGeneration" -> "gpt-image-1-mini"
    [] handler = "handleDalle3Generation" -> "dall-e-3"
    [] handler = "handleDalle2Generation" -> "dall-e-2"

\* the check of the required parameters that opens every handler: the error
\* the handler throws, or None when it goes on
ValidateArguments(arguments) ==
  IF ~arguments.some THEN Some(ArgsTypeError)
  ELSE IF ~TruthyString(arguments.v.prompt)
  THEN Some(McpError("InvalidParams", "Prompt is required"))
  ELSE IF ~TruthyPath(arguments.v.output)
  THEN Some(McpError("InvalidParams", "Output file path is required"))
  ELSE None

\* a handler's promise rejects with err
Rejection(err) == [kind |-> "rejected", error |-> err]

\* a handler whose catch block throws the error on
HandlerCatchRethrows(error) == Rejection(error)

\* the catch block of a handler: a result that carries the error flag
HandlerCatch(error) ==
  [kind |-> "returned",
   content |->
     <<[type |-> "text",
        text |-> [plain |-> <<"Error generating image: ",
                              IF error.message # "" THEN error.message
                              ELSE "Unknown error">>]]>>,
   isError |-> Some(TRUE)]

\* a handler that answers a success with a plain sentence
HandlerReturnPlain(handler, result) ==
  [kind |-> "returned",
   content |->
     <<[type |-> "text",
        text |-> [plain |-> <<"Image generated: ", HandlerModelTag(handler)>>]]>>,
   isError |-> None]

\* the return of a handler after the adapter succeeded
HandlerReturn(handler, result) ==
  [kind |-> "returned",
   content |->
     <<[type |-> "text",
        text |-> [json |-> [success |-> TRUE,
                            model |-> HandlerModelTag(handler),
                            savedFiles |-> result.savedFiles,
                            response |-> result.response]]]>>,
   isError |-> None]

(***************************************************************************)
(* The catalog the ListTools handler returns.  Descriptions and defaults   *)
(* are left out; names, property keys, types, ranges, enumerations and     *)
(* the required list are kept.                                             *)
(***************************************************************************)
StringProp == [type |-> "string"]
EnumProp(values) == [type |-> "string", enum |-> values]
IntegerProp(minimum, maximum) ==
  [type |-> "integer", minimum |-> minimum, maximum |-> maximum]

GptImageSchema ==
  [type |-> "object",
   properties |->
     [prompt |-> StringProp, output |-> StringProp,
      n |-> IntegerProp(1, 10),
      size |-> EnumProp({"1024x1024", "1536x1024", "1024x1536", "auto"}),
      quality |-> EnumProp({"low", "medium", "high", "auto"}),
      background |-> EnumProp({"transparent", "opaque", "auto"}),
      moderation |-> EnumProp({"low", "auto"}),
      output_compression |-> IntegerProp(0, 100),
      output_format |-> EnumProp({"png", "jpeg", "webp"}),
      user |-> StringProp],
   required |-> <<"prompt", "output">>]

Dalle3Schema ==
  [type |-> "object",
   properties |->
     [prompt |-> StringProp, output |-> StringProp,
      size |-> EnumProp({"1024x1024", "1792x1024", "1024x1792"}),
      quality |-> EnumProp({"standard", "hd"}),
      style |-> EnumProp({"vivid", "natural"}),
      user |-> StringProp],
   required |-> <<"prompt", "output">>]

Dalle2Schema ==
  [type |-> "object",
   properties |->
     [prompt |-> StringProp, output |-> StringProp,
      n |-> IntegerProp(1, 10),
      size |-> EnumProp({"256x256", "512x512", "1024x1024"}),
      user |-> StringProp],
   required |-> <<"prompt", "output">>]

\* a catalog whose last tool declares no required properties
ToolsLastUnrequired ==
  << [name |-> "generate_image_gpt", inputSchema |-> GptImageSchema],
     [name |-> "generate_image_gpt_mini", inputSchema |-> GptImageSchema],
     [name |-> "generate_image_dalle3", inputSchema |-> Dalle3Schema],
     [name |-> "generate_image_dalle2",
      inputSchema |-> [Dalle2Schema EXCEPT !.required = <<>>]] >>

\* the tools array of the ListTools handler
Tools ==
  << [name |-> "generate_image_gpt", inputSchema |-> GptImageSchema],
     [name |-> "generate_image_gpt_mini", inputSchema |-> GptImageSchema],
     [name |-> "generate_image_dalle3", inputSchema |-> Dalle3Schema],
     [name |-> "generate_image_dalle2", inputSchema |-> Dalle2Schema] >>

(***************************************************************************)
(* The adapter: OpenAiProvider.generateImage and saveImages.               *)
(***************************************************************************)
\* an adapter that fills in a quality for dall-e-2
BuildParamsWithDefaults(prompt, options) ==
  IF options.model = "gpt-image-1" \/ options.model = "gpt-image-1-mini"
  THEN [model |-> options.model, prompt |-> prompt, n |-> options.n,
        size |-> options.size, quality |-> options.quality,
        background |-> options.background, moderation |-> options.moderation,
        output_compression |-> options.output_compression,
        output_format |-> options.output_format,
        response_format |-> "b64_json", user |-> options.user]
  ELSE IF options.model = "dall-e-3"
  THEN [model |-> "dall-e-3", prompt |-> prompt, n |-> Some(1),
        size |-> options.size, quality |-> options.quality,
        style |-> options.style, response_format |-> "b64_json",
        user |-> options.user]
  ELSE [model |-> "dall-e-2", prompt |-> prompt, n |-> options.n,
        size |-> options.size, quality |-> Some("standard"),
        response_format |-> "b64_json", user |-> options.user]

\* an adapter that asks dall-e-2 for remote references
BuildParamsUrl(prompt, options) ==
  IF options.model = "gpt-image-1" \/ options.model = "gpt-image-1-mini"
  THEN [model |-> options.model, prompt |-> prompt, n |-> options.n,
        size |-> options.size, quality |-> options.quality,
        background |-> options.background, moderation |-> options.moderation,
        output_compression |-> options.output_compression,
        output_format |-> options.output_format,
        response_format |-> "b64_json", user |-> options.user]
  ELSE IF options.model = "dall-e-3"
  THEN [model |-> "dall-e-3", prompt |-> prompt, n |-> Some(1),
        size |-> options.size, quality |-> options.quality,
        style |-> options.style, response_format |-> "b64_json",
        user |-> options.user]
  ELSE [model |-> "dall-e-2", prompt |-> prompt, n |-> options.n,
        size |-> options.size, response_format |-> "url",
        user |-> options.user]

\* the parameters of the upstream call
BuildParams(prompt, options) ==
  IF options.model = "gpt-image-1" \/ options.model = "gpt-image-1-mini"
  THEN [model |-> options.model, prompt |-> prompt, n |-> options.n,
        size |-> options.size, quality |-> options.quality,
        background |-> options.background, moderation |-> options.moderation,
        output_compression |-> options.output_compression,
        output_format |-> options.output_format,
        response_format |-> "b64_json", user |-> options.user]
  ELSE IF options.model = "dall-e-3"
  THEN [model |-> "dall-e-3", prompt |-> prompt, n |-> Some(1),
        size |-> options.size, quality |-> options.quality,
        style |-> options.style, response_format |-> "b64_json",
        user |-> options.user]
  ELSE [model |-> "dall-e-2", prompt |-> prompt, n |-> options.n,
        size |-> options.size, response_format |-> "b64_json",
        user |-> options.user]

\* the catch block of generateImage: it logs the error, serialising its
\* response property when it has one, and rethrows
ProviderCatch(error) ==
  IF error.response = "cyclic" THEN StringifyTypeError ELSE error

\* the entry put in place of an empty image list
MockEntry == [b64_json |-> FALSE, url |-> FALSE]

\* an adapter that leaves an empty image list empty
SubstituteNothing(data) == data

\* the image list saveImages iterates: the upstream's, or the mock entry
SubstituteEmpty(data) == IF Len(data) = 0 THEN <<MockEntry>> ELSE data

\* decimal digits of a number, as the template literal prints it
DigitChar(d) ==
  CASE d = 0 -> "0" [] d = 1 -> "1" [] d = 2 -> "2" [] d = 3 -> "3"
    [] d = 4 -> "4" [] d = 5 -> "5" [] d = 6 -> "6" [] d = 7 -> "7"
    [] d = 8 -> "8" [] d = 9 -> "9"

RECURSIVE DecimalString(_)
DecimalString(k) ==
  IF k < 10 THEN <<DigitChar(k)>>
  ELSE DecimalString(k \div 10) \o <<DigitChar(k % 10)>>

\* saveImages numbering every file, a single one too
FilePathAlwaysNumbered(length, outputPath, i) ==
  LET outputDir == dirname(outputPath)
      outputExt == extname(outputPath)
      outputBasename == basename(outputPath, outputExt)
  IN join(outputDir, outputBasename \o <<"_">> \o DecimalString(i + 1) \o outputExt)

\* saveImages numbering the files from 0
FilePathFromZero(length, outputPath, i) ==
  LET outputDir == dirname(outputPath)
      outputExt == extname(outputPath)
      outputBasename == basename(outputPath, outputExt)
  IN IF length = 1 THEN outputPath
     ELSE join(outputDir, outputBasename \o <<"_">> \o DecimalString(i) \o outputExt)

\* the path entry i (from 0) of an image list of the given length is saved at
FilePath(length, outputPath, i) ==
  LET outputDir == dirname(outputPath)
      outputExt == extname(outputPath)
      outputBasename == basename(outputPath, outputExt)
  IN IF length = 1 THEN outputPath
     ELSE join(outputDir, outputBasename \o <<"_">> \o DecimalString(i + 1) \o outputExt)

\* a loop that looks at the remote reference before the inline bytes
PayloadKindUrlFirst(imageData) ==
  IF imageData.url THEN "url"
  ELSE IF imageData.b64_json THEN "b64_json"
  ELSE "placeholder"

\* the branch the loop of saveImages takes for an entry
PayloadKind(imageData) ==
  IF imageData.b64_json THEN "b64_json"
  ELSE IF imageData.url THEN "url"
  ELSE "placeholder"

\* the bytes written for an entry: decoded inline bytes, fetched bytes, or
\* the fixed 1x1 PNG
InlineBytes(slot, i) == [kind |-> "inline", by |-> slot, entry |-> i]
FetchedBytes(slot, i) == [kind |-> "fetched", by |-> slot, entry |-> i]
pngData == [kind |-> "placeholder", format |-> "png"]

(***************************************************************************)
(* The filesystem.                                                         *)
(***************************************************************************)
\* the place a path names (no symbolic links)
Location(p) ==
  LET q == normalize(p)
  IN IF Len(q) > 1 THEN StripTrailingSlashes(q) ELSE q

RECURSIVE Ancestors(_)
Ancestors(loc) ==
  IF dirname(loc) = loc THEN {loc} ELSE {loc} \cup Ancestors(dirname(loc))

\* fs.existsSync
existsSync(dirs, files, p) ==
  Location(p) \in dirs \/ \E f \in files : f.path = Location(p)

\* fs.mkdirSync(p, {recursive: true}), when it succeeds
mkdirSync(dirs, p) == dirs \cup Ancestors(Location(p))

\* whether the filesystem lets a file be written at p
Writable(dirs, p) ==
  Location(dirname(p)) \in dirs /\ Location(p) \notin dirs

\* a filesystem on which a write leaves an existing file as it is
writeFileSyncKeepsExisting(files, p, bytes) ==
  IF \E f \in files : f.path = Location(p) THEN files
  ELSE files \cup {[path |-> Location(p), content |-> bytes]}

\* fs.writeFileSync(p, bytes), when it succeeds
writeFileSync(files, p, bytes) ==
  {f \in files : f.path # Location(p)} \cup {[path |-> Location(p), content |-> bytes]}

(***************************************************************************)
(* State.                                                                  *)
(*   inv    the invocations: for each, where it stands (idle, awaiting the *)
(*          remote call, awaiting a fetch, done) and what it holds         *)
(*   dirs   the directories that exist                                     *)
(*   files  the files that exist, each with its content                    *)
(*   log    the effects so far, in order: remote calls, fetches, mkdirs    *)
(*          and writes                                                     *)
(*   listed the results of the tools/list requests so far, in order        *)
(*   env    the environment the server was started in                      *)
(*   client the remote client the adapter built in its constructor         *)
(***************************************************************************)
VARIABLES inv, dirs, files, log, listed, env, client
vars == <<inv, dirs, files, log, listed, env, client>>

\* the endpoint of the remote client when it is given none, and the endpoint
\* of the mock server of the integration test
DefaultBaseURL == "https://api.openai.com/v1"
MockBaseURL == "http://localhost:5002/v1"

\* process.env: with or without an alternate endpoint
Environments ==
  {[OPENAI_API_URL |-> None], [OPENAI_API_URL |-> Some(MockBaseURL)]}

\* the baseURL argument the server's constructor gives the adapter: none
ProviderBaseURL(environment) == None

\* the remote client the adapter's constructor builds: the baseURL option is
\* spread in only when the argument is truthy
OpenAiProvider(baseURL) ==
  [baseURL |-> IF TruthyString(baseURL) THEN baseURL.v ELSE DefaultBaseURL]

\* the constructor of the server
Constructed ==
  /\ env \in Environments
  /\ client = OpenAiProvider(ProviderBaseURL(env))

Idle ==
  [pc |-> "idle", name |-> "", arguments |-> None, handler |-> "none",
   params |-> None, upstream |-> None, response |-> None, i |-> 0,
   savedFiles |-> <<>>, raised |-> None, caught |-> None, result |-> None]

\* the directories of a fresh machine, and of one used before
BaseDirs == {<<SLASH>>, <<SLASH, "t">>, <<DOT>>}
UsedDirs == BaseDirs \cup {<<SLASH, "t", SLASH, "x">>, <<"x">>}
OldBytes == [kind |-> "old"]
UsedFiles == {[path |-> AbsNested, content |-> OldBytes]}

Init ==
  /\ inv = [s \in {1} |-> Idle]
  /\ \/ dirs = BaseDirs /\ files = {}
     \/ dirs = UsedDirs /\ files = UsedFiles
  /\ log = <<>>
  /\ listed = <<>>
  /\ Constructed

\* a loop that awaits before the write of every entry
YieldsAtEveryEntry(kind, fetched) == ~fetched

\* whether the loop yields control at an entry: only at the await of the
\* fetch of a remote reference, which it has not made yet
Yields(kind, fetched) == kind = "url" /\ ~fetched

\* the loop of saveImages from entry m.i on, up to its return, its next
\* await or its first failing write; failAt is the entry (from 1) whose write
\* the filesystem refuses, 0 for none
RECURSIVE RunLoop(_, _, _, _)
RunLoop(slot, m, fetched, failAt) ==
  IF m.i >= Len(m.data) THEN [m EXCEPT !.status = "returned"]
  ELSE
    LET imageData == m.data[m.i + 1]
        filePath == FilePath(Len(m.data), m.output, m.i)
        kind == PayloadKind(imageData)
        bytes == IF kind = "b64_json" THEN InlineBytes(slot, m.i)
                 ELSE IF kind = "url" THEN FetchedBytes(slot, m.i)
                 ELSE pngData
    IN IF Yields(kind, fetched)
       THEN [m EXCEPT !.status = "awaitFetch",
                      !.log = Append(@, [slot |-> slot, op |-> "fetch", entry |-> m.i])]
       ELSE IF failAt = m.i + 1 \/ ~Writable(m.dirs, filePath)
       THEN [m EXCEPT !.status = "threw", !.error = WriteError,
                      !.log = Append(@, [slot |-> slot, op |-> "write", ok |-> FALSE,
                                         entry |-> m.i, path |-> filePath,
                                         bytes |-> bytes])]
       ELSE RunLoop(slot,
                    [m EXCEPT !.files = writeFileSync(@, filePath, bytes),
                              !.savedFiles = Append(@, filePath),
                              !.i = @ + 1,
                              !.log = Append(@, [slot |-> slot, op |-> "write", ok |-> TRUE,
                                                 entry |-> m.i, path |-> filePath,
                                                 bytes |-> bytes])],
                    FALSE, failAt)

\* saveImages creating the directory without looking whether it exists
SaveImagesMkdirAlways(slot, m, mkdirFails, failAt) ==
  LET outputDir == dirname(m.output)
  IN IF mkdirFails
     THEN [m EXCEPT !.status = "threw", !.error = MkdirError,
                    !.log = Append(@, [slot |-> slot, op |-> "mkdir", ok |-> FALSE,
                                       path |-> outputDir])]
     ELSE RunLoop(slot,
                  [m EXCEPT !.dirs = mkdirSync(@, outputDir),
                            !.log = Append(@, [slot |-> slot, op |-> "mkdir", ok |-> TRUE,
                                               path |-> outputDir])],
                  FALSE, failAt)

\* saveImages from its start: the directory, then the loop
SaveImages(slot, m, mkdirFails, failAt) ==
  LET outputDir == dirname(m.output)
  IN IF existsSync(m.dirs, m.files, outputDir) THEN RunLoop(slot, m, FALSE, failAt)
     ELSE IF mkdirFails
     THEN [m EXCEPT !.status = "threw", !.error = MkdirError,
                    !.log = Append(@, [slot |-> slot, op |-> "mkdir", ok |-> FALSE,
                                       path |-> outputDir])]
     ELSE RunLoop(slot,
                  [m EXCEPT !.dirs = mkdirSync(@, outputDir),
                            !.log = Append(@, [slot |-> slot, op |-> "mkdir", ok |-> TRUE,
                                               path |-> outputDir])],
                  FALSE, failAt)

\* an adapter that keeps the output path in a field, which the request
\* started last overwrites
MachineSharedOutput(slot, data) ==
  LET calls == SelectSeq(log, LAMBDA e : e.op = "generate")
      latest == calls[Len(calls)].slot
  IN [dirs |-> dirs, files |-> files, log |-> log, data |-> data,
      output |-> inv[latest].arguments.v.output.v, i |-> inv[slot].i,
      savedFiles |-> inv[slot].savedFiles, status |-> "running", error |-> None]

\* what saveImages works on for invocation slot
Machine(slot, data) ==
  [dirs |-> dirs, files |-> files, log |-> log, data |-> data,
   output |-> inv[slot].arguments.v.output.v, i |-> inv[slot].i,
   savedFiles |-> inv[slot].savedFiles, status |-> "running", error |-> None]

\* handlers that call the adapter's saving outside their try block
CaughtUnlessIO(rec, error) ==
  [rec EXCEPT !.pc = "done",
              !.raised = Some(error),
              !.caught = Some(ProviderCatch(error)),
              !.result = IF error.origin \in {"mkdir", "write", "fetch"}
                         THEN Some(Rejection(ProviderCatch(error)))
                         ELSE Some(HandlerCatch(ProviderCatch(error)))]

\* an error thrown inside generateImage passes the adapter's catch block and
\* ends in the handler's: the invocation is done, with the handler's result
Caught(rec, error) ==
  [rec EXCEPT !.pc = "done",
              !.raised = Some(error),
              !.caught = Some(ProviderCatch(error)),
              !.result = Some(HandlerCatch(ProviderCatch(error)))]

\* the remote call, the reading of the response or a fetch threw
Fails(slot, error, response, upstream) ==
  inv' = [inv EXCEPT ![slot] =
            Caught([inv[slot] EXCEPT !.upstream = upstream, !.response = response],
                   error)]

\* an adapter that removes what it wrote when saving fails
SettleCleaningUp(slot, m, response, upstream) ==
  LET rec == [inv[slot] EXCEPT !.upstream = upstream, !.response = response,
                               !.i = m.i, !.savedFiles = m.savedFiles]
  IN /\ dirs' = m.dirs
     /\ files' = IF m.status = "threw"
                 THEN {f \in m.files :
                         \A k \in 1..Len(m.savedFiles) :
                           f.path # Location(m.savedFiles[k])}
                 ELSE m.files
     /\ log' = m.log
     /\ IF m.status = "threw"
        THEN inv' = [inv EXCEPT ![slot] = Caught(rec, m.error)]
        ELSE IF m.status = "awaitFetch"
        THEN inv' = [inv EXCEPT ![slot] = [rec EXCEPT !.pc = "awaitFetch"]]
        ELSE inv' = [inv EXCEPT ![slot] =
                       [rec EXCEPT !.pc = "done",
                                   !.result =
                                     Some(HandlerReturn(inv[slot].handler,
                                                        [savedFiles |-> m.savedFiles,
                                                         response |-> response.v]))]]

\* the invocation goes on from what saveImages reached
Settle(slot, m, response, upstream) ==
  LET rec == [inv[slot] EXCEPT !.upstream = upstream, !.response = response,
                               !.i = m.i, !.savedFiles = m.savedFiles]
  IN /\ dirs' = m.dirs
     /\ files' = m.files
     /\ log' = m.log
     /\ IF m.status = "threw"
        THEN inv' = [inv EXCEPT ![slot] = Caught(rec, m.error)]
        ELSE IF m.status = "awaitFetch"
        THEN inv' = [inv EXCEPT ![slot] = [rec EXCEPT !.pc = "awaitFetch"]]
        ELSE inv' = [inv EXCEPT ![slot] =
                       [rec EXCEPT !.pc = "done",
                                   !.result =
                                     Some(HandlerReturn(inv[slot].handler,
                                                        [savedFiles |-> m.savedFiles,
                                                         response |-> response.v]))]]

\* the CallTool handler on a request drawn from names and choices: routing,
\* the handler's check of the required parameters, the parameter record, and
\* generateImage up to the remote call
HandleCall(slot, names, choices) ==
  \E toolName \in names, arguments \in choices :
       LET handler == RouteOf(toolName)
           invalid == ValidateArguments(arguments)
           started == [inv[slot] EXCEPT !.name = toolName, !.arguments = arguments,
                                        !.handler = handler]
       IN IF handler = "none"
          THEN /\ inv' = [inv EXCEPT ![slot] =
                            [started EXCEPT !.pc = "done",
                               !.result = Some(Rejection(McpError("MethodNotFound",
                                                                  "Unknown tool")))]]
               /\ UNCHANGED <<dirs, files, log>>
          ELSE IF invalid.some
          THEN /\ inv' = [inv EXCEPT ![slot] =
                            [started EXCEPT !.pc = "done",
                                            !.result = Some(Rejection(invalid.v))]]
               /\ UNCHANGED <<dirs, files, log>>
          ELSE LET params == BuildParams(arguments.v.prompt.v,
                                         HandlerOptions(handler, arguments.v))
               IN /\ inv' = [inv EXCEPT ![slot] =
                               [started EXCEPT !.pc = "awaitGenerate",
                                               !.params = Some(params)]]
                  /\ log' = Append(log, [slot |-> slot, op |-> "generate",
                                         baseURL |-> client.baseURL,
                                         params |-> params])
                  /\ UNCHANGED <<dirs, files>>

\* a tools/call request arrives
CallTool(slot) ==
  /\ inv[slot].pc = "idle"
  /\ HandleCall(slot, ToolNames, ArgumentChoices)
  /\ UNCHANGED <<listed, env, client>>

\* an adapter that issues the remote call once more when it rejects
GenerateRejectsRetrying(slot, errors) ==
  \E error \in errors :
    IF Len(SelectSeq(log, LAMBDA e : e.slot = slot /\ e.op = "generate")) < 2
    THEN /\ log' = Append(log, [slot |-> slot, op |-> "generate",
                                baseURL |-> client.baseURL,
                                params |-> inv[slot].params.v])
         /\ UNCHANGED <<inv, dirs, files>>
    ELSE /\ Fails(slot, error, None, None)
         /\ UNCHANGED <<dirs, files, log>>

\* an adapter with a timer: it gives the pending call up and fails
GenerateRejectsOrTimesOut(slot, errors) ==
  \/ \E error \in errors :
       /\ Fails(slot, error, None, None)
       /\ UNCHANGED <<dirs, files, log>>
  \/ /\ Fails(slot, Error("timeout", "timed out", "none"), None, None)
     /\ UNCHANGED <<dirs, files, log>>

\* the remote call rejects: the catch of generateImage rethrows and the
\* handler's catch returns the error result
GenerateRejects(slot, errors) ==
  \E error \in errors :
    /\ Fails(slot, error, None, None)
    /\ UNCHANGED <<dirs, files, log>>

\* the remote call resolves with a response and generateImage goes on through
\* saveImages up to the first fetch
GenerateResolves(slot, responses) ==
  \E upstream \in responses :
    IF ~upstream.data.some
    THEN /\ Fails(slot, DataLengthTypeError, Some(upstream), Some(upstream))
         /\ UNCHANGED <<dirs, files, log>>
    ELSE LET data == SubstituteEmpty(upstream.data.v)
         IN \E mkdirFails \in BOOLEAN, failAt \in 0..Len(data) :
              Settle(slot, SaveImages(slot, Machine(slot, data), mkdirFails, failAt),
                     Some([data |-> Some(data)]), Some(upstream))

\* the remote call returns
GenerateReturns(slot) ==
  /\ inv[slot].pc = "awaitGenerate"
  /\ \/ GenerateRejects(slot, RemoteErrors)
     \/ GenerateResolves(slot, UpstreamResponses)
  /\ UNCHANGED <<listed, env, client>>

\* a fetch returns: it rejects, or it resolves and the loop goes on
FetchReturns(slot) ==
  /\ inv[slot].pc = "awaitFetch"
  /\ \/ \E error \in FetchErrors :
          /\ Fails(slot, error, inv[slot].response, inv[slot].upstream)
          /\ UNCHANGED <<dirs, files, log>>
     \/ \E failAt \in 0..Len(inv[slot].response.v.data.v) :
          Settle(slot,
                 RunLoop(slot, Machine(slot, inv[slot].response.v.data.v), TRUE, failAt),
                 inv[slot].response, inv[slot].upstream)
  /\ UNCHANGED <<listed, env, client>>

Next ==
  \/ \E slot \in DOMAIN inv : CallTool(slot)
  \/ \E slot \in DOMAIN inv : GenerateReturns(slot)
  \/ \E slot \in DOMAIN inv : FetchReturns(slot)

Spec == Init /\ [][Next]_vars

(***************************************************************************)
(* A session: requests served one after another by the same server, each   *)
(* tools/call in an invocation of its own, tools/list requests in between. *)
(* The requests are drawn from a handful of inputs that take every way     *)
(* out of a handler.                                                       *)
(***************************************************************************)
\* the tools/call requests and the tools/list requests of a session
MaxRequests == 2

SessionNames == {"generate_image_dalle2", "generate_image"}
SessionChoices ==
  {Some(WithRequired(NoOptions, Some("a cat"), Some(AbsNested))),
   Some(WithRequired(NoOptions, None, None))}
SessionErrors == {Error("remote", "quota exceeded", "none")}
SessionResponses ==
  {[data |-> Some(<<[b64_json |-> TRUE, url |-> FALSE]>>)],
   [data |-> Some(<<[b64_json |-> FALSE, url |-> TRUE]>>)],
   [data |-> Some(<<>>)]}

InitSession ==
  /\ inv = [s \in 1..MaxRequests |-> Idle]
  /\ dirs = BaseDirs
  /\ files = {}
  /\ log = <<>>
  /\ listed = <<>>
  /\ Constructed

\* the invocations that have been answered
Answered == {s \in DOMAIN inv : inv[s].pc = "done"}

\* a server that takes no further request once an invocation has failed
SessionCallToolUntilFailure(slot) ==
  /\ inv[slot].pc = "idle"
  /\ \A earlier \in 1..(slot - 1) :
       earlier \in Answered /\ ~inv[earlier].raised.some
  /\ HandleCall(slot, SessionNames, SessionChoices)
  /\ UNCHANGED <<listed, env, client>>

\* the next tools/call request arrives once the one before it was answered
SessionCallTool(slot) ==
  /\ inv[slot].pc = "idle"
  /\ \A earlier \in 1..(slot - 1) : earlier \in Answered
  /\ HandleCall(slot, SessionNames, SessionChoices)
  /\ UNCHANGED <<listed, env, client>>

SessionGenerateReturns(slot) ==
  /\ inv[slot].pc = "awaitGenerate"
  /\ \/ GenerateRejects(slot, SessionErrors)
     \/ GenerateResolves(slot, SessionResponses)
  /\ UNCHANGED <<listed, env, client>>

\* a tools/list request arrives and is answered with the catalog
ListTools ==
  /\ Len(listed) < MaxRequests
  /\ listed' = Append(listed, [tools |-> Tools, answered |-> Answered])
  /\ UNCHANGED <<inv, dirs, files, log, env, client>>

NextSession ==
  \/ \E slot \in DOMAIN inv : SessionCallTool(slot)
  \/ \E slot \in DOMAIN inv : SessionGenerateReturns(slot)
  \/ \E slot \in DOMAIN inv : FetchReturns(slot)
  \/ ListTools

SpecSession == InitSession /\ [][NextSession]_vars

(***************************************************************************)
(* Two invocations that overlap: the second request may arrive, and either *)
(* may go on, whenever the other is suspended at an await.                 *)
(***************************************************************************)
OverlapNames == {"generate_image_dalle2", "generate_image_gpt"}
OverlapChoices ==
  {Some(WithRequired(NoOptions, Some("a cat"), Some(AbsNested))),
   Some(WithRequired(GptStyleOptions, Some("a cat"), Some(Bare)))}
OverlapErrors == {Error("remote", "quota exceeded", "none")}
OverlapResponses ==
  {[data |-> Some(<<[b64_json |-> TRUE, url |-> FALSE]>>)],
   [data |-> Some(<<[b64_json |-> TRUE, url |-> FALSE],
                    [b64_json |-> FALSE, url |-> TRUE]>>)],
   [data |-> Some(<<[b64_json |-> FALSE, url |-> TRUE],
                    [b64_json |-> FALSE, url |-> FALSE]>>)]}

InitOverlap ==
  /\ inv = [s \in {1, 2} |-> Idle]
  /\ dirs = BaseDirs
  /\ files = {}
  /\ log = <<>>
  /\ listed = <<>>
  /\ Constructed

OverlapCallTool(slot) ==
  /\ inv[slot].pc = "idle"
  /\ HandleCall(slot, OverlapNames, OverlapChoices)
  /\ UNCHANGED <<listed, env, client>>

OverlapGenerateReturns(slot) ==
  /\ inv[slot].pc = "awaitGenerate"
  /\ \/ GenerateRejects(slot, OverlapErrors)
     \/ GenerateResolves(slot, OverlapResponses)
  /\ UNCHANGED <<listed, env, client>>

NextOverlap ==
  \/ \E slot \in DOMAIN inv : OverlapCallTool(slot)
  \/ \E slot \in DOMAIN inv : OverlapGenerateReturns(slot)
  \/ \E slot \in DOMAIN inv : FetchReturns(slot)

SpecOverlap == InitOverlap /\ [][NextOverlap]_vars

(***************************************************************************)
(* One invocation, on the same requests and answers, when every remote     *)
(* call and every fetch that is awaited returns.                           *)
(***************************************************************************)
Returning ==
  \A slot \in {1} :
    WF_vars(OverlapGenerateReturns(slot)) /\ WF_vars(FetchReturns(slot))

SpecReturning == Init /\ [][NextOverlap]_vars /\ Returning

(***************************************************************************)
(* What the claims speak of.                                               *)
(***************************************************************************)
Slots == DOMAIN inv
Done(s) == inv[s].pc = "done"

\* the effects of invocation s, in order
GenerateCalls(s) == SelectSeq(log, LAMBDA e : e.slot = s /\ e.op = "generate")
FileEffects(s) == SelectSeq(log, LAMBDA e : e.slot = s /\ e.op \in {"mkdir", "write"})
Writes(s) == SelectSeq(log, LAMBDA e : e.slot = s /\ e.op = "write" /\ e.ok)
Fetches(s) == SelectSeq(log, LAMBDA e : e.slot = s /\ e.op = "fetch")

\* the filesystem is as it was at the start
FilesystemUntouched ==
  \/ dirs = BaseDirs /\ files = {}
  \/ dirs = UsedDirs /\ files = UsedFiles

\* the invocation names a catalog tool and passed the check of prompt and output
Accepted(s) ==
  /\ inv[s].pc # "idle"
  /\ inv[s].name \in CatalogNames
  /\ inv[s].arguments.some
  /\ TruthyString(inv[s].arguments.v.prompt)
  /\ TruthyPath(inv[s].arguments.v.output)

\* prompt or output is missing or empty (an invocation without an arguments
\* object has neither)
MissingRequired(s) ==
  \/ ~inv[s].arguments.some
  \/ ~inv[s].arguments.v.prompt.some
  \/ inv[s].arguments.v.prompt.v = ""
  \/ ~inv[s].arguments.v.output.some
  \/ inv[s].arguments.v.output.v = <<>>

RejectedWith(s, code) ==
  /\ inv[s].result.some
  /\ inv[s].result.v.kind = "rejected"
  /\ inv[s].result.v.error.origin = "McpError"
  /\ inv[s].result.v.error.code = code

\* the result is a returned one that carries isError = true and a text item
IsErrorResult(s) ==
  /\ inv[s].result.some
  /\ inv[s].result.v.kind = "returned"
  /\ inv[s].result.v.isError = Some(TRUE)
  /\ Len(inv[s].result.v.content) = 1
  /\ inv[s].result.v.content[1].type = "text"
  /\ DOMAIN inv[s].result.v.content[1].text = {"plain"}
  /\ Len(inv[s].result.v.content[1].text.plain) = 2

\* the result is a returned one without the error flag, with success: true
IsSuccessResult(s) ==
  /\ inv[s].result.some
  /\ inv[s].result.v.kind = "returned"
  /\ inv[s].result.v.isError = None
  /\ Len(inv[s].result.v.content) = 1
  /\ DOMAIN inv[s].result.v.content[1].text = {"json"}
  /\ inv[s].result.v.content[1].text.json.success = TRUE

Outcome(s) == inv[s].result.v.content[1].text.json

\* the filesystem refused a mkdir or a write, or a fetch failed
RaisedFrom(s, origins) ==
  inv[s].raised.some /\ inv[s].raised.v.origin \in origins
NoIOFailure(s) == ~RaisedFrom(s, {"mkdir", "write", "fetch"})

OutputOf(s) == inv[s].arguments.v.output.v
ContentAt(p) == {f.content : f \in {g \in files : g.path = Location(p)}}

\* C1: for each of the four tools, an invocation whose prompt is missing or
\* empty, or whose output is missing or empty, is rejected with the
\* invalid-parameters protocol error, and makes no remote call, creates no
\* directory and writes no file.
C1_MissingRequiredRejected ==
  \A s \in Slots :
    (inv[s].pc # "idle" /\ inv[s].name \in CatalogNames /\ MissingRequired(s))
      => /\ Done(s)
         /\ RejectedWith(s, "InvalidParams")
         /\ Len(GenerateCalls(s)) = 0
         /\ Len(FileEffects(s)) = 0
         /\ FilesystemUntouched

\* the part of C1 that the code keeps: such an invocation never reaches the
\* remote call or the filesystem, and with an argument bag it is rejected
\* with the invalid-parameters error
C1_WithArgumentBag ==
  \A s \in Slots :
    (inv[s].pc # "idle" /\ inv[s].name \in CatalogNames /\ MissingRequired(s))
      => /\ Done(s)
         /\ inv[s].result.v.kind = "rejected"
         /\ inv[s].arguments.some => RejectedWith(s, "InvalidParams")
         /\ Len(GenerateCalls(s)) = 0
         /\ Len(FileEffects(s)) = 0
         /\ FilesystemUntouched

\* C2: when the remote generate call fails during an invocation with valid
\* prompt and output, the handler returns a result with isError = true and
\* a text message; it does not throw.
C2_RemoteFailureIsErrorResult ==
  \A s \in Slots :
    (Done(s) /\ RaisedFrom(s, {"remote"}))
      => /\ Accepted(s)
         /\ IsErrorResult(s)
         /\ inv[s].result.v.content[1].text.plain[1] = "Error generating image: "
         /\ inv[s].result.v.content[1].text.plain[2] # ""

C2_Witness ==
  \E s \in Slots :
    /\ Done(s)
    /\ RaisedFrom(s, {"remote"})
    /\ inv[s].raised.v.message = ""
    /\ IsErrorResult(s)

\* C3: generate_image_dalle3, whatever count the caller supplies, makes
\* exactly one upstream call, and that call's count of images is 1.
C3_Dalle3CountPinned ==
  \A s \in Slots :
    (Accepted(s) /\ inv[s].name = "generate_image_dalle3")
      => /\ Len(GenerateCalls(s)) = 1
         /\ GenerateCalls(s)[1].params.n = Some(1)
         /\ inv[s].params = Some(GenerateCalls(s)[1].params)

C3_Witness ==
  \E s \in Slots :
    /\ Done(s)
    /\ Accepted(s)
    /\ inv[s].name = "generate_image_dalle3"
    /\ inv[s].arguments.v.n = Some(5)
    /\ IsSuccessResult(s)
    /\ GenerateCalls(s)[1].params.n = Some(1)

\* the invocation got this image list from the upstream
Got(s, data) == inv[s].upstream = Some([data |-> Some(data)])

\* invocation s wrote exactly one file, with these bytes, at its output path
\* as given, and holds that path as its only saved path
WroteOnlyAtOutput(s, bytes) ==
  /\ Len(Writes(s)) = 1
  /\ Writes(s)[1].path = OutputOf(s)
  /\ Writes(s)[1].bytes = bytes
  /\ ContentAt(OutputOf(s)) = {bytes}
  /\ inv[s].savedFiles = <<OutputOf(s)>>
  /\ IsSuccessResult(s)
  /\ Outcome(s).savedFiles = <<OutputOf(s)>>

\* C4: when the upstream response has an empty image list, the adapter
\* writes exactly one file, the placeholder, at the requested path, returns
\* exactly that path, and the invocation is a success.
C4_EmptyListOnePlaceholder ==
  \A s \in Slots :
    (Done(s) /\ Got(s, <<>>) /\ NoIOFailure(s)) => WroteOnlyAtOutput(s, pngData)

C4_Witness ==
  \E s \in Slots :
    /\ Done(s)
    /\ Got(s, <<>>)
    /\ WroteOnlyAtOutput(s, pngData)
    /\ OutputOf(s) = AbsNested

\* C5: when the upstream response has no data field at all, the adapter
\* substitutes one placeholder entry, writes exactly one file at the
\* requested path, and the invocation is a success, as for an empty list.
C5_AbsentListOnePlaceholder ==
  \A s \in Slots :
    (Done(s) /\ inv[s].upstream = Some([data |-> None]) /\ NoIOFailure(s))
      => WroteOnlyAtOutput(s, pngData)

\* C6: when the upstream response has exactly one entry and it carries
\* inline bytes, the adapter writes exactly one file, at the destination
\* path as the caller gave it, and returns that single path.
C6_SingleInlineAtLiteralPath ==
  \A s \in Slots :
    (/\ Done(s)
     /\ inv[s].upstream.some
     /\ inv[s].upstream.v.data.some
     /\ Len(inv[s].upstream.v.data.v) = 1
     /\ inv[s].upstream.v.data.v[1].b64_json
     /\ NoIOFailure(s))
      => /\ WroteOnlyAtOutput(s, InlineBytes(s, 0))
         /\ Len(Fetches(s)) = 0

C6_Witness ==
  \E s \in Slots :
    /\ Done(s)
    /\ Got(s, <<[b64_json |-> TRUE, url |-> TRUE]>>)
    /\ OutputOf(s) = DotRelative
    /\ WroteOnlyAtOutput(s, InlineBytes(s, 0))

\* the destination paths as directory, base name and extension, written out
PartsOf(p) ==
  CASE p = AbsNested -> [dir |-> <<"/", "t", "/", "x">>, base |-> <<"i">>, ext |-> <<".", "p">>]
    [] p = Bare -> [dir |-> <<>>, base |-> <<"i">>, ext |-> <<".", "p">>]
    [] p = DotRelative -> [dir |-> <<".", "/", "x">>, base |-> <<"i">>, ext |-> <<".", "p">>]
    [] p = NoExtension -> [dir |-> <<"/", "t">>, base |-> <<"i">>, ext |-> <<>>]

Numerals == <<"1", "2", "3", "4", "5", "6", "7", "8", "9">>

\* D/base_k.ext for the destination path p
Sibling(p, k) ==
  LET parts == PartsOf(p)
  IN (IF parts.dir = <<>> THEN <<>> ELSE parts.dir \o <<"/">>)
     \o parts.base \o <<"_", Numerals[k]>> \o parts.ext

\* the directory D of the destination path p, as a place
DirectoryOf(p) ==
  IF PartsOf(p).dir = <<>> THEN <<".">> ELSE Location(PartsOf(p).dir)

\* C7: when the upstream response has N > 1 entries of any payload kind and
\* the destination is D/base.ext, the adapter writes exactly N files, at
\* D/base_1.ext ... D/base_N.ext, in entry order, returns those N paths in
\* that order, and directory D exists afterwards, created if it was absent.
\* A returned path is the sibling path in normalised form: it is the literal
\* D/base_k.ext when the destination path was given normalised.
C7_SiblingPaths ==
  \A s \in Slots :
    (/\ Done(s)
     /\ inv[s].upstream.some
     /\ inv[s].upstream.v.data.some
     /\ Len(inv[s].upstream.v.data.v) > 1
     /\ ~inv[s].raised.some)
      => LET N == Len(inv[s].upstream.v.data.v)
         IN /\ Len(Writes(s)) = N
            /\ \A k \in 1..N :
                 /\ Writes(s)[k].entry = k - 1
                 /\ Location(Writes(s)[k].path) = Location(Sibling(OutputOf(s), k))
                 /\ normalize(OutputOf(s)) = OutputOf(s)
                      => Writes(s)[k].path = Sibling(OutputOf(s), k)
                 /\ ContentAt(Sibling(OutputOf(s), k)) # {}
                 /\ inv[s].savedFiles[k] = Writes(s)[k].path
            /\ Len(inv[s].savedFiles) = N
            /\ IsSuccessResult(s)
            /\ Outcome(s).savedFiles = inv[s].savedFiles
            /\ DirectoryOf(OutputOf(s)) \in dirs
            /\ ContentAt(OutputOf(s)) \subseteq {OldBytes}

C7_Witness ==
  \E s \in Slots :
    /\ Done(s)
    /\ Got(s, <<[b64_json |-> FALSE, url |-> TRUE], [b64_json |-> FALSE, url |-> FALSE]>>)
    /\ OutputOf(s) = AbsNested
    /\ inv[s].savedFiles = <<Sibling(AbsNested, 1), Sibling(AbsNested, 2)>>
    /\ \E k \in 1..Len(log) : log[k].op = "mkdir" /\ log[k].ok
    /\ <<"/", "t", "/", "x">> \in dirs

\* C8: an I/O failure inside the adapter (creating the destination
\* directory, writing a file, fetching a remote reference) yields a returned
\* result with isError = true; it is not thrown as a protocol-level error.
C8_IOFailureIsErrorResult ==
  \A s \in Slots :
    (Done(s) /\ RaisedFrom(s, {"mkdir", "write", "fetch"}))
      => /\ Accepted(s)
         /\ IsErrorResult(s)

C8_Witness ==
  \E s \in Slots :
    /\ Done(s)
    /\ RaisedFrom(s, {"write"})
    /\ Len(Writes(s)) = 1
    /\ IsErrorResult(s)

\* the handler and the model variant of each catalog name
OwnHandler(toolName) ==
  CASE toolName = "generate_image_gpt" -> "handleGptImageGeneration"
    [] toolName = "generate_image_gpt_mini" -> "handleGptImageMiniGeneration"
    [] toolName = "generate_image_dalle3" -> "handleDalle3Generation"
    [] toolName = "generate_image_dalle2" -> "handleDalle2Generation"

VariantOf(toolName) ==
  CASE toolName = "generate_image_gpt" -> "gpt-image-1"
    [] toolName = "generate_image_gpt_mini" -> "gpt-image-1-mini"
    [] toolName = "generate_image_dalle3" -> "dall-e-3"
    [] toolName = "generate_image_dalle2" -> "dall-e-2"

\* C9: a tool name outside the catalog yields the method-not-found protocol
\* error, with no handler run, no remote call and nothing written; each of
\* the four catalog names is routed to its own handler.
C9_Routing ==
  \A s \in Slots :
    inv[s].pc # "idle"
      => IF inv[s].name \in CatalogNames
         THEN /\ inv[s].handler = OwnHandler(inv[s].name)
              /\ ~RejectedWith(s, "MethodNotFound")
              /\ inv[s].params.some => inv[s].params.v.model = VariantOf(inv[s].name)
         ELSE /\ Done(s)
              /\ RejectedWith(s, "MethodNotFound")
              /\ inv[s].handler = "none"
              /\ inv[s].params = None
              /\ Len(GenerateCalls(s)) = 0
              /\ Len(FileEffects(s)) = 0
              /\ FilesystemUntouched

C9_Witness ==
  \E s \in Slots :
    /\ Done(s)
    /\ inv[s].name = "generate_image"
    /\ Accepted(s) = FALSE
    /\ inv[s].arguments.some
    /\ TruthyString(inv[s].arguments.v.prompt)
    /\ TruthyPath(inv[s].arguments.v.output)
    /\ RejectedWith(s, "MethodNotFound")

C11_ResponseUnmodified ==
  \A s \in Slots :
    (Done(s) /\ IsSuccessResult(s))
      => /\ inv[s].response = inv[s].upstream
         /\ Outcome(s).response = inv[s].upstream.v

\* the branch the claims expect for an entry
ExpectedKind(entry) ==
  CASE entry.b64_json -> "inline"
    [] ~entry.b64_json /\ entry.url -> "fetched"
    [] ~entry.b64_json /\ ~entry.url -> "placeholder"

\* the entries (from 0) of a list that carry a remote reference and no
\* inline bytes, in order
RECURSIVE UrlOnlyEntries(_, _)
UrlOnlyEntries(data, k) ==
  IF k >= Len(data) THEN <<>>
  ELSE (IF ~data[k + 1].b64_json /\ data[k + 1].url THEN <<k>> ELSE <<>>)
       \o UrlOnlyEntries(data, k + 1)

\* C12: per entry, inline bytes present -> they are decoded and written and
\* no fetch is made even if a remote reference is present too; else a remote
\* reference present -> it is fetched and the fetched bytes are written;
\* else the fixed placeholder is written.  Exactly one of the three happens
\* per entry.
C12_PayloadPrecedence ==
  \A s \in Slots :
    inv[s].response.some /\ inv[s].response.v.data.some
      => LET data == inv[s].response.v.data.v
         IN /\ \A k \in 1..Len(Writes(s)) :
                 /\ Writes(s)[k].entry = k - 1
                 /\ Writes(s)[k].bytes.kind = ExpectedKind(data[k])
                 /\ Writes(s)[k].bytes.kind # "placeholder"
                      => Writes(s)[k].bytes.entry = k - 1
            /\ Len(Fetches(s)) <= Len(UrlOnlyEntries(data, 0))
            /\ \A k \in 1..Len(Fetches(s)) :
                 k <= Len(UrlOnlyEntries(data, 0))
                   => Fetches(s)[k].entry = UrlOnlyEntries(data, 0)[k]
            /\ (Done(s) /\ ~inv[s].raised.some)
                 => /\ Len(Writes(s)) = Len(data)
                    /\ Len(Fetches(s)) = Len(UrlOnlyEntries(data, 0))

C12_Witness ==
  \E s \in Slots :
    /\ Done(s)
    /\ Got(s, <<[b64_json |-> TRUE, url |-> TRUE], [b64_json |-> FALSE, url |-> TRUE]>>)
    /\ Len(Writes(s)) = 2
    /\ Writes(s)[1].bytes = InlineBytes(s, 0)
    /\ Writes(s)[2].bytes = FetchedBytes(s, 1)
    /\ Fetches(s) = <<[slot |-> s, op |-> "fetch", entry |-> 1]>>

\* the output format an invocation configures: output_format where the tool
\* has it, png otherwise
ConfiguredFormat(s) ==
  IF /\ inv[s].name \in {"generate_image_gpt", "generate_image_gpt_mini"}
     /\ inv[s].arguments.v.output_format.some
  THEN inv[s].arguments.v.output_format.v
  ELSE "png"

\* C13: for an entry with neither inline bytes nor a remote reference, the
\* file written is a minimal image in the output format the invocation
\* configures (jpeg or webp when output_format says so).
C13_PlaceholderInConfiguredFormat ==
  \A s \in Slots :
    \A k \in 1..Len(Writes(s)) :
      Writes(s)[k].bytes.kind = "placeholder"
        => Writes(s)[k].bytes.format = ConfiguredFormat(s)

\* the declared input schema of a tool of the catalog
SchemaOf(toolName) ==
  Tools[CHOOSE k \in 1..Len(Tools) : Tools[k].name = toolName].inputSchema

\* the keys of an upstream call that the adapter sets itself
AdapterKeys == {"model", "prompt", "response_format"}

\* the keys of an upstream call that carry a value
Populated(params) == {k \in DOMAIN params \ AdapterKeys : params[k].some}

Satisfies(prop, value) ==
  IF prop.type = "integer"
  THEN value \in prop.minimum..prop.maximum
  ELSE "enum" \in DOMAIN prop => value \in prop.enum

\* C15: every field of an upstream call that a tool's schema declares holds
\* a value the schema allows: count within 1..10, compression within
\* 0..100, each enumerated field one of its values.
C15_ValuesWithinSchema ==
  \A s \in Slots :
    \A c \in 1..Len(GenerateCalls(s)) :
      LET params == GenerateCalls(s)[c].params
          properties == SchemaOf(inv[s].name).properties
      IN \A k \in Populated(params) \cap DOMAIN properties :
           Satisfies(properties[k], params[k].v)

\* C16: every upstream call asks for the inline-encoded response
\* (response_format b64_json), whatever the arguments contain.
C16_AlwaysInlineEncoding ==
  \A k \in 1..Len(log) :
    log[k].op = "generate" => log[k].params.response_format = "b64_json"

C16_Witness ==
  \E s \in Slots :
    /\ inv[s].name = "generate_image_dalle2"
    /\ Len(GenerateCalls(s)) = 1
    /\ inv[s].arguments.v.response_format = Some("url")
    /\ GenerateCalls(s)[1].params.response_format = "b64_json"

\* C17: no retry.  An invocation makes at most one remote generate call:
\* exactly one when the tool is known and prompt and output are non-empty,
\* none otherwise; when the remote call fails the failure is reported once,
\* as the error result, and the call is not issued again.
C17_NoRetry ==
  \A s \in Slots :
    /\ Len(GenerateCalls(s)) <= 1
    /\ inv[s].pc # "idle"
         => Len(GenerateCalls(s)) = IF Accepted(s) THEN 1 ELSE 0
    /\ (Done(s) /\ RaisedFrom(s, {"remote"}))
         => /\ IsErrorResult(s)
            /\ Len(GenerateCalls(s)) = 1

C17_Witness ==
  \E s \in Slots :
    /\ Done(s)
    /\ RaisedFrom(s, {"remote"})
    /\ IsErrorResult(s)
    /\ Len(GenerateCalls(s)) = 1

\* the invocation was handled: the tool is known, prompt and output were
\* given, and the handler has answered
Handled(s) == Done(s) /\ Accepted(s)

\* the result carries exactly one content item, a text item
OneTextItem(s) ==
  /\ inv[s].result.some
  /\ inv[s].result.v.kind = "returned"
  /\ Len(inv[s].result.v.content) = 1
  /\ inv[s].result.v.content[1].type = "text"

\* C18, as stated: every handled callTool, on success and on failure alike,
\* returns content = [one text item] whose text is a JSON-encoded outcome
\* object.
C18_TextIsJsonOutcome ==
  \A s \in Slots :
    Handled(s)
      => /\ OneTextItem(s)
         /\ DOMAIN inv[s].result.v.content[1].text = {"json"}

\* C18, amended: every handled callTool returns content = [one text item];
\* on success the text is the JSON-encoded outcome object and there is no
\* error flag; on failure the text is the plain sentence 'Error generating
\* image: ' followed by the error's message or 'Unknown error', and isError
\* is true.
C18_OneTextItemJsonOnSuccess ==
  \A s \in Slots :
    Handled(s)
      => /\ OneTextItem(s)
         /\ LET result == inv[s].result.v
                text == result.content[1].text
            IN IF inv[s].raised.some
               THEN /\ result.isError = Some(TRUE)
                    /\ DOMAIN text = {"plain"}
                    /\ text.plain[1] = "Error generating image: "
                    /\ text.plain[2] = IF inv[s].caught.v.message # ""
                                       THEN inv[s].caught.v.message
                                       ELSE "Unknown error"
               ELSE /\ result.isError = None
                    /\ DOMAIN text = {"json"}
                    /\ text.json.success = TRUE

C18_Witness ==
  \E s \in Slots :
    /\ Handled(s)
    /\ RaisedFrom(s, {"write"})
    /\ OneTextItem(s)
    /\ inv[s].result.v.content[1].text =
         [plain |-> <<"Error generating image: ", "ENOSPC">>]

\* the names a catalog lists, with repetitions
NamesListed(tools) == [k \in 1..Len(tools) |-> tools[k].name]

\* C19: every tools/list answer is the same static catalog: each of the four
\* tool names exactly once, each with required = [prompt, output] in its
\* schema, whatever tools/list and tools/call requests, successful or
\* failed, were served before.
C19_StaticCatalog ==
  \A k \in 1..Len(listed) :
    LET tools == listed[k].tools
    IN /\ \A name \in CatalogNames :
            Cardinality({j \in 1..Len(tools) : tools[j].name = name}) = 1
       /\ Len(tools) = Cardinality(CatalogNames)
       /\ \A j \in 1..Len(tools) :
            tools[j].inputSchema.required = <<"prompt", "output">>
       /\ tools = listed[1].tools

\* a catalog was listed before any call, and again after one call failed and
\* another succeeded
C19_Witness ==
  /\ Len(listed) = 2
  /\ listed[1].answered = {}
  /\ listed[2].answered = {1, 2}
  /\ \E s \in Slots : IsErrorResult(s)
  /\ \E s \in Slots : IsSuccessResult(s)
  /\ listed[2].tools = listed[1].tools
  /\ NamesListed(listed[2].tools) =
       <<"generate_image_gpt", "generate_image_gpt_mini",
         "generate_image_dalle3", "generate_image_dalle2">>

\* C20: an invocation of one of the four tools with no arguments object at
\* all is rejected with the invalid-parameters protocol error, the outcome
\* of an invocation with an empty arguments object, and makes no remote call.
C20_NoArgumentsIsInvalidParams ==
  \A s \in Slots :
    (inv[s].pc # "idle" /\ inv[s].name \in CatalogNames /\ ~inv[s].arguments.some)
      => /\ inv[s].result =
              Some(Rejection(McpError("InvalidParams", "Prompt is required")))
         /\ Len(GenerateCalls(s)) = 0

\* the number of images an invocation asks for: 1 when n is omitted, and
\* always 1 for generate_image_dalle3
Requested(s) ==
  IF inv[s].name = "generate_image_dalle3" \/ ~inv[s].arguments.v.n.some
  THEN 1
  ELSE inv[s].arguments.v.n.v

\* C21: one file per requested image: a successful invocation that asked
\* for n images writes and reports exactly n files, whatever number of
\* entries the upstream returned.
C21_OneFilePerRequestedImage ==
  \A s \in Slots :
    (Done(s) /\ IsSuccessResult(s))
      => /\ Len(Writes(s)) = Requested(s)
         /\ Len(Outcome(s).savedFiles) = Requested(s)

\* C23: when the environment supplies an alternate endpoint (OPENAI_API_URL)
\* every remote generate call goes to that endpoint; when it supplies none,
\* to the default endpoint.
C23_EndpointFromEnvironment ==
  \A k \in 1..Len(log) :
    log[k].op = "generate"
      => log[k].baseURL = IF env.OPENAI_API_URL.some
                          THEN env.OPENAI_API_URL.v
                          ELSE DefaultBaseURL

\* the paths saveImages returns for an image list written in full
PathsFor(data, outputPath) ==
  [k \in 1..Len(data) |-> FilePath(Len(data), outputPath, k - 1)]

\* what invocation s holds is what its own request, its own upstream answer
\* and its own failure make of it on a server that has served nothing else:
\* routing, rejection, upstream parameters, the single call, the response
\* returned, the paths saved and the result
HandledAlone(s) ==
  LET rec == inv[s]
      invalid == ValidateArguments(rec.arguments)
  IN rec.pc # "idle" =>
       /\ rec.handler = RouteOf(rec.name)
       /\ IF rec.handler = "none"
          THEN /\ rec.result =
                    Some(Rejection(McpError("MethodNotFound", "Unknown tool")))
               /\ GenerateCalls(s) = <<>>
          ELSE IF invalid.some
          THEN /\ rec.result = Some(Rejection(invalid.v))
               /\ GenerateCalls(s) = <<>>
          ELSE LET params == BuildParams(rec.arguments.v.prompt.v,
                                         HandlerOptions(rec.handler, rec.arguments.v))
               IN /\ rec.params = Some(params)
                  /\ GenerateCalls(s) =
                       <<[slot |-> s, op |-> "generate",
                          baseURL |-> client.baseURL, params |-> params]>>
                  /\ rec.response.some /\ rec.upstream.v.data.some
                       => LET data == SubstituteEmpty(rec.upstream.v.data.v)
                          IN /\ rec.response.v.data = Some(data)
                             /\ rec.savedFiles =
                                  SubSeq(PathsFor(data, rec.arguments.v.output.v),
                                         1, Len(rec.savedFiles))
                             /\ (Done(s) /\ ~rec.raised.some)
                                  => Len(rec.savedFiles) = Len(data)
                  /\ Done(s)
                       => rec.result =
                            IF rec.raised.some
                            THEN Some(HandlerCatch(ProviderCatch(rec.raised.v)))
                            ELSE Some(HandlerReturn(rec.handler,
                                                    [savedFiles |-> rec.savedFiles,
                                                     response |-> rec.response.v]))

\* C22: after any sequence of invocations, failed ones included (invalid
\* arguments, unknown tool, remote failure, I/O failure), the server still
\* takes the next request, and handles it as a freshly started server would
\* on the same filesystem: nothing of an earlier invocation shows in a
\* later one.
C22_StillServingAndStateless ==
  \A s \in Slots :
    /\ (inv[s].pc = "idle" /\ \A earlier \in 1..(s - 1) : earlier \in Answered)
         => ENABLED SessionCallTool(s)
    /\ HandledAlone(s)

\* a request is served in full after an invocation that failed on a write
C22_Witness ==
  /\ RaisedFrom(1, {"write"})
  /\ IsErrorResult(1)
  /\ IsSuccessResult(2)
  /\ Outcome(2).savedFiles = <<AbsNested>>
  /\ HandledAlone(2)

\* the successful writes at location p, in order
WritesAt(p) ==
  SelectSeq(log, LAMBDA e : e.op = "write" /\ e.ok /\ Location(e.path) = p)

\* C24: two overlapping invocations that write to the same destination are
\* not serialized by any lock: while one awaits its remote call the other's
\* request is taken, both can complete and report success listing the path,
\* and a file's content is that of the write performed last.
C24_LastWriteWins ==
  /\ \A s \in Slots :
       (inv[s].pc = "idle" /\ \E other \in Slots : inv[other].pc = "awaitGenerate")
         => ENABLED OverlapCallTool(s)
  /\ \A f \in files :
       /\ Len(WritesAt(f.path)) > 0
       /\ f.content = WritesAt(f.path)[Len(WritesAt(f.path))].bytes

\* both invocations succeeded on the same path; the second request's write
\* came first, and the file holds what the first request wrote last
C24_Witness ==
  /\ IsSuccessResult(1) /\ IsSuccessResult(2)
  /\ Outcome(1).savedFiles = <<AbsNested>>
  /\ Outcome(2).savedFiles = <<AbsNested>>
  /\ Len(WritesAt(AbsNested)) = 2
  /\ WritesAt(AbsNested)[1].slot = 2
  /\ WritesAt(AbsNested)[2].slot = 1
  /\ ContentAt(AbsNested) = {InlineBytes(1, 0)}

\* C25: in every interleaving of two overlapping invocations, each one's
\* upstream parameters, kind of outcome, model tag, saved paths and returned
\* response are those it produces alone from the same arguments and the
\* same upstream answer; its effects carry its own paths and bytes.
C25_OverlapIndependent ==
  \A s \in Slots :
    /\ HandledAlone(s)
    /\ IsSuccessResult(s)
         => /\ Outcome(s).model = HandlerModelTag(RouteOf(inv[s].name))
            /\ [k \in 1..Len(Writes(s)) |-> Writes(s)[k].path] = Outcome(s).savedFiles
    /\ \A k \in 1..Len(Writes(s)) :
         Writes(s)[k].bytes.kind # "placeholder"
           => Writes(s)[k].bytes.by = s

\* the first invocation was suspended at a fetch while the second, with
\* other arguments, ran from request to result; both succeeded
C25_Witness ==
  /\ IsSuccessResult(1) /\ IsSuccessResult(2)
  /\ inv[1].name # inv[2].name
  /\ Outcome(1).savedFiles = PathsFor(inv[1].response.v.data.v, AbsNested)
  /\ Outcome(2).savedFiles = <<Bare>>
  /\ Len(Fetches(1)) = 1
  /\ \E j, k \in 1..Len(log) :
       /\ j < k
       /\ log[j].slot = 1 /\ log[j].op = "fetch"
       /\ log[k].slot = 2 /\ log[k].op = "generate"
       /\ \E l \in (k + 1)..Len(log) : log[l].slot = 1 /\ log[l].op = "write"

\* all the effects of invocation s, in order
Effects(s) == SelectSeq(log, LAMBDA e : e.slot = s)

\* the order of the effects of invocation s so far
EffectsInOrder(s) ==
  LET E == Effects(s)
  IN /\ ~Accepted(s) => E = <<>>
     /\ Accepted(s) => Len(E) >= 1 /\ E[1].op = "generate"
     /\ \A k \in 2..Len(E) :
          /\ E[k].op # "generate"
          /\ E[k].op = "mkdir" => k = 2
          /\ E[k].op \in {"write", "fetch"}
               => \* entries come in order, and an entry's fetch before its write
                  /\ E[k].entry =
                       Len(SelectSeq(SubSeq(E, 1, k - 1),
                                     LAMBDA e : e.op = "write" /\ e.ok))
                  /\ E[k - 1].op = "fetch"
                       => E[k].op = "write" /\ E[k].entry = E[k - 1].entry
          /\ (E[k].op = "write" /\ E[k].ok)
               => Location(dirname(E[k].path)) \in dirs
     /\ inv[s].pc = "awaitGenerate" => Len(E) = 1 /\ FilesystemUntouched
     /\ RaisedFrom(s, {"remote"}) => Len(E) = 1 /\ FilesystemUntouched
     /\ inv[s].result.some <=> Done(s)

\* a step creates a directory only as its first filesystem effect and only
\* when the directory did not exist; otherwise the directories stay as they
\* are; and once the result is there nothing more happens
DirectoryStep ==
  LET new == SubSeq(log', Len(log) + 1, Len(log'))
  IN /\ \A k \in 1..Len(new) :
          new[k].op = "mkdir"
            => /\ k = 1
               /\ ~existsSync(dirs, files, new[k].path)
               /\ new[k].ok => existsSync(dirs', files', new[k].path)
     /\ (\A k \in 1..Len(new) : new[k].op # "mkdir" \/ ~new[k].ok) => dirs' = dirs
     /\ \A s \in Slots : Done(s) => Effects(s)' = Effects(s)

\* C26: the effects of an invocation come in this order: argument check,
\* the single remote call, the directory, the writes in entry order, the
\* result.  Nothing touches the filesystem before the remote call returns,
\* and nothing at all when it fails; the directory is there before the
\* first write, and is left alone when it already exists.
C26_OrderOfEffects ==
  /\ [](\A s \in Slots : EffectsInOrder(s))
  /\ [][DirectoryStep]_vars

\* the directory was created, then two files written in order, then the result
C26_Witness ==
  \E s \in Slots :
    /\ IsSuccessResult(s)
    /\ Len(Effects(s)) = 4
    /\ Effects(s)[2].op = "mkdir" /\ Effects(s)[2].ok
    /\ Effects(s)[3].op = "write" /\ Effects(s)[3].entry = 0
    /\ Effects(s)[4].op = "write" /\ Effects(s)[4].entry = 1

\* the effects of invocation s that concern an entry
EntryEffects(s) == SelectSeq(log, LAMBDA e : e.slot = s /\ e.op \in {"write", "fetch"})

\* C27: when the write or the fetch of entry k fails, the files written for
\* the entries before k stay on disk with what was written, no entry after k
\* is touched, the result is a failure (isError = true), and its text does
\* not list the paths already written.
C27_PartialOutputOnFailure ==
  \A s \in Slots :
    (Done(s) /\ RaisedFrom(s, {"write", "fetch"}))
      => LET written == Writes(s)
         IN /\ IsErrorResult(s)
            /\ Len(written) = inv[s].i
            /\ \A j \in 1..Len(written) :
                 ContentAt(written[j].path) = {written[j].bytes}
            /\ \A j \in 1..Len(EntryEffects(s)) :
                 EntryEffects(s)[j].entry <= Len(written)
            /\ DOMAIN inv[s].result.v = {"kind", "content", "isError"}
            /\ inv[s].result.v.content[1].text.plain =
                 <<"Error generating image: ",
                   IF inv[s].caught.v.message # "" THEN inv[s].caught.v.message
                   ELSE "Unknown error">>

\* the second of two entries failed, at its write or at its fetch; the
\* first file is on disk
C27_Witness ==
  \E s \in Slots :
    /\ Done(s)
    /\ RaisedFrom(s, {"fetch"})
    /\ Len(inv[s].response.v.data.v) = 2
    /\ Len(Writes(s)) = 1
    /\ ContentAt(Writes(s)[1].path) = {InlineBytes(s, 0)}
    /\ IsErrorResult(s)

\* C28: an error of the remote call or of saving reaches the handler as it
\* was thrown (the adapter rethrows the error it caught), and the failure
\* text is 'Error generating image: ' followed by that error's message, or
\* by 'Unknown error' when it has none.
C28_ErrorReachesHandlerUnmodified ==
  \A s \in Slots :
    (Done(s) /\ inv[s].raised.some)
      => /\ inv[s].caught = inv[s].raised
         /\ IsErrorResult(s)
         /\ inv[s].result.v.content[1].text.plain =
              <<"Error generating image: ",
                IF inv[s].raised.v.message # "" THEN inv[s].raised.v.message
                ELSE "Unknown error">>

\* while the remote call of s is pending, s has no result, has touched no
\* file or directory, and has issued the call once
PendingIsQuiet(s) ==
  inv[s].pc = "awaitGenerate"
    => /\ ~inv[s].result.some
       /\ Len(FileEffects(s)) = 0
       /\ Len(GenerateCalls(s)) = 1

\* an invocation leaves its pending remote call only by the call's return,
\* with a response or with the call's own error, and never issues it again
LeavesByReturn ==
  \A s \in Slots :
    /\ (inv[s].pc = "awaitGenerate" /\ inv'[s].pc # "awaitGenerate")
         => \/ inv'[s].upstream.some
            \/ inv'[s].raised.some /\ inv'[s].raised.v.origin = "remote"
    /\ inv[s].pc # "idle" => GenerateCalls(s)' = GenerateCalls(s)

\* C29: there is no timeout or cancellation: an invocation with valid
\* arguments ends with a result whenever its remote call and its fetches
\* return; while the remote call is pending it neither completes nor
\* touches the filesystem, and the pending call is neither given up nor
\* issued again.
C29_ReturnsWhenAwaitedReturns ==
  /\ \A s \in {1} :
       (inv[s].pc \in {"awaitGenerate", "awaitFetch"})
         ~> (Done(s) /\ (IsSuccessResult(s) \/ IsErrorResult(s)))
  /\ [](\A s \in Slots : PendingIsQuiet(s))
  /\ [][LeavesByReturn]_vars

\* an invocation that awaited the remote call and a fetch has its result
C29_Witness ==
  \E s \in Slots :
    /\ Done(s)
    /\ Len(GenerateCalls(s)) = 1
    /\ Len(Fetches(s)) = 1
    /\ IsSuccessResult(s)

\* the positions in the log of the effects of invocation s
PositionsOf(s) == {k \in 1..Len(log) : log[k].slot = s}

\* the effect at position k is an await of invocation s: its remote call,
\* or the fetch of an entry that carries a remote reference and no inline
\* bytes
IsAwait(s, k) ==
  \/ log[k].op = "generate"
  \/ /\ log[k].op = "fetch"
     /\ inv[s].response.some
     /\ LET entry == inv[s].response.v.data.v[log[k].entry + 1]
        IN ~entry.b64_json /\ entry.url

\* C30: within an invocation the creation of the directory and the writes
\* of entries with inline bytes or no payload run without yielding: an
\* effect of another invocation comes between two effects of this one only
\* where this one awaits its remote call or the fetch of a remote
\* reference.
C30_InterleavedOnlyAtAwaits ==
  \A s \in Slots :
    \A j \in 1..Len(log) :
      LET before == {k \in PositionsOf(s) : k < j}
          after == {k \in PositionsOf(s) : k > j}
      IN (log[j].slot # s /\ before # {} /\ after # {})
           => IsAwait(s, CHOOSE k \in before : \A l \in before : l <= k)

\* the second invocation wrote its file between the fetch and the write of
\* the first one's entry, after the first one had written an entry
C30_Witness ==
  \E i, j, k \in 1..Len(log) :
    /\ i < j /\ j < k
    /\ log[i].slot = 1 /\ log[i].op = "fetch" /\ log[i].entry = 1
    /\ log[j].slot = 2 /\ log[j].op = "write" /\ log[j].ok
    /\ log[k].slot = 1 /\ log[k].op = "write" /\ log[k].ok /\ log[k].entry = 1
    /\ Len(Writes(1)) = 2

====
